---- MODULE Spec2Model ----
(***************************************************************************)
(* A model of OntoWeaver's tabular mapping engine                          *)
(* (src/src/ontoweaver/tabular.py, base.py, transformer.py):               *)
(*   - the type registry (Declare.make_node_class / make_edge_class over   *)
(*     the namespace of the `types` module),                               *)
(*   - identifier construction (PandasAdapter.make_id),                    *)
(*   - the per-row execution engine (PandasAdapter.run / process_row).     *)
(* Strings that the code concatenates, splits or sanitizes are sequences   *)
(* of tokens, so that "BRCA1:Gene" is <<"BRCA1", ":", "Gene">> and the     *)
(* empty string is <<>>.  Type, property and column names are TLA+ strings.*)
(***************************************************************************)
EXTENDS Integers, Sequences, FiniteSets, TLC

\* ------------------------------------------------------------------ bounds
\* Number of make_node_class / make_edge_class calls explored.
MaxDecls == 3
\* Number of YamlParser objects (configurations) created in one process.
MaxParsers == 2

\* ------------------------------------------------------- registry: values
\* Node and edge classes share one namespace (attributes of the `types`
\* module): "A" is declared both as a node class and as an edge class.
NodeNames == {"A", "B"}
EdgeNames == {"E", "A"}
TypeNames == NodeNames \cup EdgeNames
\* The class names of the mappings the engine is run on.
MappingTypeNames == {"Gene", "Disease", "Phenotype", "ASSOCIATED_WITH", "HAS_PHENOTYPE"}
Range(s) == {s[i] : i \in DOMAIN s}

\* getattr(module, name) when hasattr(module, name) is false.
NoClass == [kind |-> "none", properties |-> <<>>, source |-> "", targets |-> <<>>]
\* No declaration recorded.
NoDecl == [kind |-> "none", properties |-> <<>>, source |-> "", target |-> ""]

VARIABLES
    types,       \* the `types` module namespace: name -> class descriptor
    parser,      \* number of the YamlParser currently declaring (1, 2, ...)
    ndecl,       \* declaration calls made so far
    exc,         \* exception raised by the last call ("" when it returned)
    firstBy,     \* history: firstBy[p][n] = first declaration parser p made of n
    targetsBy,   \* history: targetsBy[p][n] = targets parser p declared for edge n
    type_affix,      \* PandasAdapter.type_affix: "prefix", "suffix" or "none"
    type_affix_sep,  \* PandasAdapter.type_affix_sep, a string
    raise_errors,    \* ErrorManager.raise_errors of the adapter
    made,            \* the last make_id call: its arguments and its outcome
    called,          \* the last transformer call: the object, the row, the outcome
    mapping,         \* the configuration handed to the last YamlParser
    transformer_module,  \* the namespace of the `transformer` module: name -> class
    registered,          \* the last register call: its argument
    df,                  \* PandasAdapter.df: the rows, each a column -> value map
    subject_transformer, \* PandasAdapter.subject_transformer
    transformers,        \* PandasAdapter.transformers, in declaration order
    metadata,            \* PandasAdapter.metadata: a set of [type, key, value]
    parallel_mapping,    \* PandasAdapter.parallel_mapping
    pc,                  \* where run() is: "ready", "rows", "log", "done", "aborted"
    cursor,      \* position of the row the sequential loop of run() handles next
    worker,      \* per row, the state of its executor task: "pending", "running", "done"
    results,     \* per row, what its executor task returned or raised
    nodes,       \* Adapter._nodes: the node tuples appended so far
    edges,       \* Adapter._edges: the edge tuples appended so far
    errors,      \* Adapter.errors
    counts,      \* nb_rows, nb_transformations and nb_nodes of run()
    raised       \* the exception that left run() ("" when none did)

declVars == <<types, parser, ndecl, exc, firstBy, targetsBy>>
adapterVars == <<type_affix, type_affix_sep, raise_errors>>
configVars == <<df, subject_transformer, transformers, metadata, parallel_mapping>>
runVars == <<pc, cursor, worker, results, nodes, edges, errors, counts, raised>>
registerVars == <<transformer_module, registered>>
probeVars == <<called, mapping, registerVars>>
vars == <<declVars, adapterVars, made, probeVars, configVars, runVars>>

\* No make_id call made yet.
NoCall == [called |-> FALSE, entry_type |-> "", entry_name |-> <<>>,
           id |-> <<>>, none |-> FALSE, exc |-> ""]

\* dict.values() of a property dictionary, as a list.
values(properties) == [i \in DOMAIN properties |-> properties[i].name]

\* cls.fields(): a node class returns list(properties.values()), an edge class
\* returns the properties dictionary itself.
fields(cls) ==
    IF cls.kind = "node" THEN values(cls.properties) ELSE cls.properties

\* Mutant of make_node_class: a re-declaration replaces the class.
make_node_class_replacing(module, name, properties) ==
    [module |-> [module EXCEPT ![name] =
                    [kind |-> "node", properties |-> properties,
                     source |-> "", targets |-> <<>>]],
     exc |-> ""]

\* Declare.make_node_class: returns the existing class of that name, whatever
\* it is, or registers a new node class whose fields() are the given ones.
make_node_class(module, name, properties) ==
    IF module[name].kind # "none"
    THEN [module |-> module, exc |-> ""]
    ELSE [module |-> [module EXCEPT ![name] =
                        [kind |-> "node", properties |-> properties,
                         source |-> "", targets |-> <<>>]],
          exc |-> ""]

\* Mutant of make_edge_class: a re-declaration replaces the target list by
\* the new target instead of appending to it.
make_edge_class_replacing_targets(module, name, source_t, target_t, properties) ==
    IF module[name].kind = "node"
    THEN [module |-> module, exc |-> "AttributeError"]
    ELSE [module |-> [module EXCEPT ![name] =
                        [kind |-> "edge",
                         properties |-> IF module[name].kind = "edge"
                                        THEN module[name].properties ELSE properties,
                         source |-> IF module[name].kind = "edge"
                                    THEN module[name].source ELSE source_t,
                         targets |-> <<target_t>>]],
          exc |-> ""]

\* Mutant of make_edge_class: a re-declaration also overwrites the source type.
make_edge_class_overwriting_source(module, name, source_t, target_t, properties) ==
    IF module[name].kind = "node"
    THEN [module |-> module, exc |-> "AttributeError"]
    ELSE [module |-> [module EXCEPT ![name] =
                        [kind |-> "edge",
                         properties |-> IF module[name].kind = "edge"
                                        THEN module[name].properties ELSE properties,
                         source |-> source_t,
                         targets |-> Append(module[name].targets, target_t)]],
          exc |-> ""]

\* Declare.make_edge_class: an existing class of that name gets target_t
\* appended to its target_type() list (a node class has no target_type and
\* the call raises AttributeError before changing anything); a new name is
\* registered with source_t and the one-element list [target_t].
make_edge_class(module, name, source_t, target_t, properties) ==
    IF module[name].kind = "edge"
    THEN [module |-> [module EXCEPT ![name].targets = Append(@, target_t)],
          exc |-> ""]
    ELSE IF module[name].kind = "node"
    THEN [module |-> module, exc |-> "AttributeError"]
    ELSE [module |-> [module EXCEPT ![name] =
                        [kind |-> "edge", properties |-> properties,
                         source |-> source_t, targets |-> <<target_t>>]],
          exc |-> ""]

\* ------------------------------------------------------------ ErrorManager
\* ErrorManager.error on an object whose raise_errors is `flag`: the
\* exception it raises ("" when it returns the message instead).
error(flag, exception) == IF flag THEN exception ELSE ""

\* ---------------------------------------------------- transformer framework
\* A transformer object (base.Transformer.__init__): its kind (the subclass),
\* columns, target class name, edge class name, the from_subject keyword
\* ("" when the object has no such attribute), its properties_of dictionary,
\* the values its output validator rejects, and its raise_errors attribute.
\* The object has an output validator (the parser gives one to the subject
\* transformer and to every structural transformer).
\* Transformer.__init__ never calls ErrorManager.__init__, so the attribute
\* exists only when the keyword parameters set it: "unset", "raise", "collect".
Transformer(kind, columns, target, edge, from_subject, properties_of) ==
    [kind |-> kind, columns |-> columns, target |-> target, edge |-> edge,
     from_subject |-> from_subject, properties_of |-> properties_of,
     rejects |-> {}, flag |-> "unset", validator |-> "OutputValidator",
     translations |-> {}, translations_from |-> "none"]

\* translate.__init__ on top of Transformer.__init__: the lookup table, a set
\* of <<from, to>> pairs, given inline (`translations`) or loaded from a file
\* (`translations_file`, with the translate_from and translate_to keywords,
\* which the inline form does not need).
translating(t, table, origin) ==
    [t EXCEPT !.translations = table, !.translations_from = origin]

\* A transformer built without output_validator (the property transformers of
\* the parser): the attribute is None.
without_validator(t) == [t EXCEPT !.validator = "None"]

\* Property dictionaries (properties_of[type]), in insertion order: one
\* [key, name] item per property transformer (key) and the property name it
\* feeds.
PropDicts ==
    { <<>>,
      <<[key |-> without_validator(Transformer("map", <<"gene_id">>, "", "", "", <<>>)),
         name |-> "p"]>> }

\* self.error(..., exception) called on a transformer: reading the missing
\* raise_errors attribute raises AttributeError; otherwise as ErrorManager.
transformer_error(t, exception) ==
    IF t.flag = "unset" THEN "AttributeError" ELSE error(t.flag = "raise", exception)

\* OutputValidator(value): passes, or fails with SchemaErrors.
output_validator(t, value) == value \notin t.rejects

\* Transformer.create(item): str(item) when the output validator passes;
\* when it fails, self.error(DataValidationError) and False.  Calling an
\* output_validator of None raises TypeError.
create(t, item) ==
    IF t.validator = "None"
    THEN [val |-> <<>>, truthy |-> FALSE, exc |-> "TypeError"]
    ELSE IF output_validator(t, item)
    THEN [val |-> item, truthy |-> item # <<>>, exc |-> ""]
    ELSE [val |-> <<>>, truthy |-> FALSE,
          exc |-> transformer_error(t, "DataValidationError")]

RECURSIVE map_columns(_, _, _, _)
\* The loop of map.__call__ over self.columns from position k on, `acc` being
\* the values yielded so far.
map_columns(t, row, k, acc) ==
    IF k > Len(t.columns) THEN [vals |-> acc, exc |-> "", row |-> row]
    ELSE LET key == t.columns[k] IN
         IF key \notin DOMAIN row
         THEN [vals |-> acc, row |-> row,
               exc |-> IF transformer_error(t, "TransformerDataError") # ""
                       THEN transformer_error(t, "TransformerDataError")
                       ELSE "KeyError"]
         ELSE LET res == create(t, row[key]) IN
              IF res.exc # "" THEN [vals |-> acc, exc |-> res.exc, row |-> row]
              ELSE map_columns(t, row, k + 1,
                               IF res.truthy THEN Append(acc, res.val) ELSE acc)

\* map.__call__(row, i): the values it yields and the exception that ends
\* the iteration, if any.
map_call(t, row, i) ==
    IF t.columns = <<>> /\ transformer_error(t, "TransformerInputError") # ""
    THEN [vals |-> <<>>, exc |-> transformer_error(t, "TransformerInputError"),
          row |-> row]
    ELSE map_columns(t, row, 1, <<>>)

RECURSIVE cat_columns(_, _, _, _, _)
\* The loop of cat.__call__: formatted_items grows by one column per turn
\* and is passed to create, and yielded, on every turn.
cat_columns(t, row, k, formatted_items, acc) ==
    IF k > Len(t.columns) THEN [vals |-> acc, exc |-> "", row |-> row]
    ELSE LET key == t.columns[k] IN
         IF key \notin DOMAIN row
         THEN [vals |-> acc, exc |-> "KeyError", row |-> row]
         ELSE LET formatted == formatted_items \o row[key]
                  res == create(t, formatted)
              IN IF res.exc # "" THEN [vals |-> acc, exc |-> res.exc, row |-> row]
                 ELSE cat_columns(t, row, k + 1, formatted,
                                  IF res.truthy THEN Append(acc, res.val) ELSE acc)

\* cat.__call__(row, i).
cat_call(t, row, i) == cat_columns(t, row, 1, <<>>, <<>>)

\* self.translate[cell] for a cell that is a key of the table.
translated(table, cell) == (CHOOSE p \in table : p[1] = cell)[2]

\* self.map of a translate transformer: a map on the same target, columns
\* and validator, built without the keyword parameters.
translate_map(t) ==
    [t EXCEPT !.kind = "map", !.flag = "unset", !.from_subject = "",
              !.translations = {}, !.translations_from = "none"]

RECURSIVE translate_columns(_, _, _)
\* The loop of translate.__call__ over self.columns from position k on: a
\* cell found in the table is replaced in the row itself; for another cell a
\* warning is formatted with self.translate_from and self.translate_to,
\* attributes the object only has when these keywords were given.
translate_columns(t, row, k) ==
    IF k > Len(t.columns) THEN [row |-> row, exc |-> ""]
    ELSE IF t.columns[k] \notin DOMAIN row
    THEN [row |-> row,
          exc |-> IF transformer_error(t, "TransformerDataError") # ""
                  THEN transformer_error(t, "TransformerDataError")
                  ELSE "KeyError"]
    ELSE IF \E p \in t.translations : p[1] = row[t.columns[k]]
    THEN translate_columns(
            t, [row EXCEPT ![t.columns[k]] = translated(t.translations, @)], k + 1)
    ELSE IF t.translations_from = "file"
    THEN translate_columns(t, row, k + 1)
    ELSE [row |-> row, exc |-> "AttributeError"]

\* The end of translate.__call__: `for e in self.map(row, i): yield e` on
\* the row tr left, unless the loop raised.
translate_yield(t, i, tr) ==
    IF tr.exc # "" THEN [vals |-> <<>>, exc |-> tr.exc, row |-> tr.row]
    ELSE map_call(translate_map(t), tr.row, i)

\* translate.__call__(row, i).
translate_call(t, row, i) ==
    IF t.columns = <<>> /\ transformer_error(t, "TransformerDataError") # ""
    THEN [vals |-> <<>>, exc |-> transformer_error(t, "TransformerDataError"),
          row |-> row]
    ELSE translate_yield(t, i, translate_columns(t, row, 1))

\* transformer(row, i): dispatch on the subclass.
call(t, row, i) ==
    CASE t.kind = "map" -> map_call(t, row, i)
      [] t.kind = "cat" -> cat_call(t, row, i)
      [] t.kind = "translate" -> translate_call(t, row, i)

\* ------------------------------------------------------------------ make_id
TypeAffixes == {"suffix", "prefix", "none"}
\* A type name as the string the f-string formats it to.
Str(name) == <<name>>

\* Mutant of make_id: the prefix and suffix branches are swapped.
make_id_swapped(affix, sep, flag, entry_type, entry_name) ==
    LET id == IF affix = "suffix" THEN Str(entry_type) \o sep \o entry_name
              ELSE IF affix = "prefix" THEN entry_name \o sep \o Str(entry_type)
              ELSE entry_name
    IN IF id # <<>>
       THEN [id |-> id, none |-> FALSE, exc |-> ""]
       ELSE [id |-> <<>>, none |-> TRUE, exc |-> error(flag, "DeclarationError")]

\* PandasAdapter.make_id(entry_type, entry_name) under the adapter's affix
\* policy and separator.  A non-empty formatted string is returned; an empty
\* one goes to self.error(DeclarationError), which raises or returns, and in
\* that case make_id returns None.
make_id(affix, sep, flag, entry_type, entry_name) ==
    LET id == IF affix = "prefix" THEN Str(entry_type) \o sep \o entry_name
              ELSE IF affix = "suffix" THEN entry_name \o sep \o Str(entry_type)
              ELSE entry_name
    IN IF id # <<>>
       THEN [id |-> id, none |-> FALSE, exc |-> ""]
       ELSE [id |-> <<>>, none |-> TRUE, exc |-> error(flag, "DeclarationError")]

\* ------------------------------------------------------------ YamlParser
\* One entry of the `transformers` list of a mapping: a structural entry
\* names to_target and via_edge (and maybe from_subject), a property entry
\* names to_properties (and maybe for_objects).  "" and <<>> stand for a key
\* the entry does not have.
Entry(kind, columns, to_target, via_edge, from_subject, to_properties, for_objects) ==
    [kind |-> kind, columns |-> columns, to_target |-> to_target,
     via_edge |-> via_edge, from_subject |-> from_subject,
     to_properties |-> to_properties, for_objects |-> for_objects,
     validate_output |-> {}, raise_errors |-> "unset",
     translations |-> {}, translations_from |-> "none"]

\* A mapping: the `row` entry and the `transformers` list.
Mapping(kind, columns, to_subject, entries) ==
    [row |-> [kind |-> kind, columns |-> columns, to_subject |-> to_subject,
              validate_output |-> {}, raise_errors |-> "unset"],
     transformers |-> entries,
     metadata |-> <<>>]

\* A mapping with a `metadata` block: a list of <<key, value>> items.
with_metadata_list(config, items) == [config EXCEPT !.metadata = items]

\* An entry d (or the `row` entry) with validate_output rules, given as the set
\* of values the validator compiled from them rejects.
validated(d, rejected) == [d EXCEPT !.validate_output = rejected]

\* An entry d with the free keyword parameter raise_errors ("raise" for true,
\* "collect" for false), which Transformer.__init__ sets as an attribute.
with_raise_errors(d, flag) == [d EXCEPT !.raise_errors = flag]

\* An entry d with the keyword parameters of a translate transformer: the
\* table, given inline (`translations`) or as a file (`translations_file`
\* with translate_from and translate_to).
with_translations(d, table, origin) ==
    [d EXCEPT !.translations = table, !.translations_from = origin]

\* The transformer t as make_transformer_class builds it for the entry d: the
\* keyword parameters of d become attributes, and the validator holds the
\* rules of d.
configured(t, d) ==
    [t EXCEPT !.rejects = d.validate_output, !.flag = d.raise_errors]

RECURSIVE properties_of_get(_, _, _)
\* properties_of.get(type, {}) after the first loop of YamlParser.__call__ over
\* the entries 1..k: each property entry adds its transformer, under
\* setdefault, to the dictionary of each of its object types (the subject
\* type when it names none).
properties_of_get(config, type, k) ==
    IF k = 0 THEN <<>>
    ELSE LET e == config.transformers[k]
             before == properties_of_get(config, type, k - 1)
             object_types == IF e.for_objects = <<>>
                             THEN <<config.row.to_subject>> ELSE e.for_objects
         IN IF e.to_properties # <<>> /\ type \in Range(object_types)
            THEN Append(before,
                        [key |-> without_validator(configured(
                                    Transformer(e.kind, e.columns, "", "",
                                                e.from_subject, <<>>), e)),
                         name |-> e.to_properties[1]])
            ELSE before

\* The key that asks for the source column names (k_metadata_column).
AddSourceColumnNamesAs == "add_source_column_names_as"

\* A metadata value used as a dictionary key (key_name = metadata[type][key]).
key_name_of(value) == value[1]

RECURSIVE joined(_, _)
\* ", ".join(columns), from position k on.
joined(columns, k) ==
    IF k > Len(columns) THEN <<>>
    ELSE IF k = Len(columns) THEN <<columns[k]>>
    ELSE <<columns[k], ", ">> \o joined(columns, k + 1)

\* metadata[type][key] = value on the metadata kept as a set of
\* [type, key, value].
metadata_set(md, type, key, value) ==
    {m \in md : ~(m.type = type /\ m.key = key)}
    \cup {[type |-> type, key |-> key, value |-> value]}

RECURSIVE metadata_update(_, _, _, _)
\* `for item in metadata_list: metadata[type].update(item)` from item k on.
metadata_update(md, type, items, k) ==
    IF k > Len(items) THEN md
    ELSE metadata_update(metadata_set(md, type, items[k][1], items[k][2]),
                         type, items, k + 1)

\* The directive found in metadata[type] with value key_name: the directive
\* is deleted and, when columns are given, their names are stored under
\* key_name.
source_columns_stored(md, type, key_name, columns) ==
    IF columns = <<>>
    THEN {m \in md : ~(m.type = type /\ m.key = AddSourceColumnNamesAs)}
    ELSE metadata_set({m \in md : ~(m.type = type /\ m.key = AddSourceColumnNamesAs)},
                      type, key_name, joined(columns, 1))

\* Mutant of source_columns_checked: an existing key is overwritten.
source_columns_overwriting(md, type, columns) ==
    IF \E m \in md : m.type = type /\ m.key = AddSourceColumnNamesAs
    THEN [metadata |-> source_columns_stored(md, type,
                          key_name_of((CHOOSE m \in md :
                              m.type = type /\ m.key = AddSourceColumnNamesAs).value),
                          columns),
          exc |-> ""]
    ELSE [metadata |-> md, exc |-> ""]

\* `for key in k_metadata_column` of _extract_metadata on the updated
\* metadata md: a key_name that metadata[type] already holds is a KeyError.
source_columns_checked(md, type, columns) ==
    IF \E m \in md : m.type = type /\ m.key = AddSourceColumnNamesAs
    THEN IF \E m \in md :
              /\ m.type = type
              /\ m.key = key_name_of((CHOOSE d \in md :
                              d.type = type /\ d.key = AddSourceColumnNamesAs).value)
         THEN [metadata |-> md, exc |-> "KeyError"]
         ELSE [metadata |-> source_columns_stored(md, type,
                              key_name_of((CHOOSE d \in md :
                                  d.type = type /\ d.key = AddSourceColumnNamesAs).value),
                              columns),
               exc |-> ""]
    ELSE [metadata |-> md, exc |-> ""]

\* YamlParser._extract_metadata(k_metadata_column, metadata_list, metadata,
\* type, columns); "" and <<>> stand for a type and columns of None.
extract_metadata(metadata_list, md, type, columns) ==
    IF metadata_list = <<>> \/ type = "" THEN [metadata |-> md, exc |-> ""]
    ELSE source_columns_checked(metadata_update(md, type, metadata_list, 1),
                                type, columns)

\* The parser state st after an _extract_metadata call that returned r.
extracted(st, r) ==
    IF r.exc # "" THEN [st EXCEPT !.exc = r.exc]
    ELSE [st EXCEPT !.metadata = r.metadata]

\* `if edge:` extract the metadata of the edge type (columns None).
edge_metadata(config, e, st) ==
    IF st.exc # "" \/ e.via_edge = "" THEN st
    ELSE extracted(st, extract_metadata(config.metadata, st.metadata,
                                        e.via_edge, <<>>))

\* The metadata of the target type of entry e, then of its edge type.
entry_metadata(config, e, st) ==
    edge_metadata(config, e,
                  extracted(st, extract_metadata(config.metadata, st.metadata,
                                                 e.to_target, e.columns)))

RECURSIVE declare_entries(_, _, _)
\* Mutant of property_entry: a target next to the properties is ignored.
property_entry_ignoring_target(config, k, st) ==
    declare_entries(config, k + 1, st)

\* An entry with to_properties in the second loop: declaring a target as
\* well is a CardinalityError; otherwise `continue`.
property_entry(config, k, st) ==
    IF config.transformers[k].to_target # ""
    THEN [st EXCEPT !.exc = "CardinalityError"]
    ELSE declare_entries(config, k + 1, st)

\* The second loop of YamlParser.__call__ (`Then, declare types.`) over the
\* entries k.. : st carries the module, the transformers built so far and the
\* exception raised, if any.  The parser's raise_errors is True.
declare_entries(config, k, st) ==
    IF st.exc # "" \/ k > Len(config.transformers) THEN st
    ELSE LET e == config.transformers[k]
             n == Len(config.transformers)
             subject_type == config.row.to_subject
         IN
         IF e.to_properties # <<>>
         THEN property_entry(config, k, st)
         ELSE IF e.to_target # "" /\ e.via_edge # ""
         THEN LET m1 == make_node_class(st.module, e.to_target,
                            properties_of_get(config, e.to_target, n)).module
                  m2 == IF e.from_subject # ""
                        THEN make_node_class(m1, e.from_subject,
                                properties_of_get(config, e.from_subject, n)).module
                        ELSE m1
                  ed == make_edge_class(m2, e.via_edge,
                            IF e.from_subject # "" THEN e.from_subject
                            ELSE subject_type,
                            e.to_target,
                            properties_of_get(config, e.via_edge, n))
              IN IF ed.exc # "" THEN [st EXCEPT !.exc = ed.exc, !.module = m2]
                 ELSE declare_entries(config, k + 1, entry_metadata(config, e,
                        [st EXCEPT !.module = ed.module,
                                   !.transformers = Append(@,
                                       configured(
                                         translating(
                                           Transformer(e.kind, e.columns, e.to_target,
                                             e.via_edge, e.from_subject,
                                             properties_of_get(config, e.to_target, n)),
                                           e.translations, e.translations_from),
                                         e))]))
         ELSE IF e.to_target # "" \/ e.via_edge # ""
         THEN [st EXCEPT !.exc = "MissingDataError"]
         ELSE declare_entries(config, k + 1, st)

\* YamlParser(config, module)(): the subject transformer, the transformers,
\* the metadata and the module namespace after the declarations.
yaml_parse(config, module) ==
    LET n == Len(config.transformers)
        subject_type == config.row.to_subject
        source == make_node_class(module, subject_type,
                                  properties_of_get(config, subject_type, n))
    IN declare_entries(config, 1, extracted(
          [module |-> source.module,
           subject_transformer |->
               configured(
                   Transformer(config.row.kind, config.row.columns, subject_type,
                               "", "", properties_of_get(config, subject_type, n)),
                   config.row),
           transformers |-> <<>>,
           metadata |-> {},
           exc |-> ""],
          extract_metadata(config.metadata, {}, subject_type, config.row.columns)))

\* ------------------------------------------------------------ the engine
\* The characters the sanitization is about, as tokens of a string.
SingleQuote == "'"
Backtick == "BACKTICK"
\* str(property).replace(single quote, backtick) of PandasAdapter.properties.
backticked(s) == [k \in DOMAIN s |-> IF s[k] = SingleQuote THEN Backtick ELSE s[k]]

\* properties[key] = value on a dictionary kept as a set of <<key, value>>.
dict_set(d, key, value) == {e \in d : e[1] # key} \cup {<<key, value>>}

RECURSIVE dict_set_last(_, _, _, _)
\* The inner loop of PandasAdapter.properties: every value the property
\* transformer yields is assigned, in turn, to the property name.
dict_set_last(d, name, vals, k) ==
    IF k > Len(vals) THEN d
    ELSE dict_set_last(dict_set(d, name, backticked(vals[k])), name, vals, k + 1)

RECURSIVE properties_from(_, _, _, _, _)
\* One turn of the outer loop of PandasAdapter.properties: r is what the
\* property transformer of item k yielded on the row.
properties_item(properity_dict, i, k, d, r) ==
    IF r.exc # "" THEN [val |-> d, exc |-> r.exc, row |-> r.row]
    ELSE properties_from(properity_dict, r.row, i, k + 1,
                         dict_set_last(d, properity_dict[k].name, r.vals, 1))

\* The outer loop of PandasAdapter.properties over the items of the property
\* dictionary, from position k on.
properties_from(properity_dict, row, i, k, d) ==
    IF k > Len(properity_dict) THEN [val |-> d, exc |-> "", row |-> row]
    ELSE properties_item(properity_dict, i, k, d,
                         call(properity_dict[k].key, row, i))

RECURSIVE dict_update(_, _)
\* properties[key] = value for each item of the metadata of one type.
dict_update(d, items) ==
    IF items = {} THEN d
    ELSE LET m == CHOOSE x \in items : TRUE IN
         dict_update(dict_set(d, m.key, m.value), items \ {m})

\* The end of PandasAdapter.properties: the metadata of the element's type
\* is merged over the properties p the loop built.
with_metadata(p, elem_name) ==
    IF p.exc # "" THEN p
    ELSE [p EXCEPT !.val = dict_update(@, {m \in metadata : m.type = elem_name})]

\* PandasAdapter.properties(properity_dict, row, i, transformer, node), with
\* elem_name the __name__ of transformer.target (node) or transformer.edge.
properties(properity_dict, row, i, elem_name) ==
    with_metadata(properties_from(properity_dict, row, i, 1, {}), elem_name)

\* Element.__init__ on the id make_id returned: None becomes the empty string.
element_id(r) == IF r.none THEN <<>> ELSE r.id
\* Edge.__init__: str(id_source), str(id_target); str(None) is "None".
edge_end(r) == IF r.none THEN <<"None">> ELSE r.id

\* make_node, exported by Node.as_tuple: (id, label, properties).
make_node(node_t, id, props) == [id |-> id, label |-> node_t, properties |-> props]

\* Mutant of make_edge: the two ends of the edge are exchanged.
make_edge_reversed(edge_t, id_target, id_source, props) ==
    [id |-> <<>>, id_source |-> id_target, id_target |-> id_source,
     label |-> edge_t, properties |-> props]

\* make_edge, exported by Edge.as_tuple: (id, id_source, id_target, label,
\* properties); no id is passed, so Element.__init__ sets it to ''.
make_edge(edge_t, id_target, id_source, props) ==
    [id |-> <<>>, id_source |-> id_source, id_target |-> id_target,
     label |-> edge_t, properties |-> props]

\* The local variables of process_row, with the exception that ended it.
Locals(row) ==
    [row |-> row, nodes |-> <<>>, edges |-> <<>>, errors |-> <<>>, rows |-> 1,
     transformations |-> 0, nb_nodes |-> 0, exc |-> ""]

\* local_errors.append(self.error(..., exception=exception)) in the adapter:
\* raises under the raise policy, else records the message.
local_error(loc, exception, i, j) ==
    IF error(raise_errors, exception) # ""
    THEN [loc EXCEPT !.exc = error(raise_errors, exception)]
    ELSE [loc EXCEPT !.errors =
             Append(@, [exception |-> exception, row |-> i, transformer |-> j])]

\* self.make_id of the running adapter.
adapter_make_id(entry_type, entry_name) ==
    make_id(type_affix, type_affix_sep, raise_errors, entry_type, entry_name)

RECURSIVE redirect_values(_, _, _, _, _, _, _)
\* The body of `for s_id in t(row, i)`: sid is the identifier make_id
\* returned for the value and p the properties of the redirected edge.
redirect_edge(loc, i, tr, t, s_ids, k, target_node_id, sid, p) ==
    IF sid.exc # "" THEN [loc EXCEPT !.exc = sid.exc]
    ELSE IF p.exc # "" THEN [loc EXCEPT !.exc = p.exc, !.row = p.row]
    ELSE redirect_values(
            [loc EXCEPT !.row = p.row,
                        !.edges = Append(@, make_edge(tr.edge,
                                      edge_end(target_node_id),
                                      edge_end(sid), p.val))],
            i, tr, t, s_ids, k + 1, target_node_id)

\* `for s_id in t(row, i)` of the from_subject branch: one edge of
\* transformer tr from every value s_ids[k..] of the matching transformer t.
redirect_values(loc, i, tr, t, s_ids, k, target_node_id) ==
    IF loc.exc # "" \/ k > Len(s_ids) THEN loc
    ELSE redirect_edge(loc, i, tr, t, s_ids, k, target_node_id,
                       adapter_make_id(t.target, s_ids[k]),
                       properties(tr.properties_of, loc.row, i, t.edge))

\* What a loop over the values of a transformer leaves: the exception the
\* transformer raised after its last value, unless the body raised first.
after_values(l1, r) ==
    IF l1.exc = "" /\ r.exc # "" THEN [l1 EXCEPT !.exc = r.exc] ELSE l1

RECURSIVE redirect_search(_, _, _, _, _, _)
\* A transformer t whose target is named tr.from_subject: s is what t yields
\* when it is called again on the row.
redirect_match(loc, i, tr, m, target_node_id, t, s) ==
    redirect_search(
        after_values(redirect_values([loc EXCEPT !.row = s.row], i, tr, t,
                                     s.vals, 1, target_node_id), s),
        i, tr, m + 1, target_node_id, TRUE)

\* `for t in self.transformers` of the from_subject branch, from position m
\* on: every transformer whose target is named tr.from_subject is called again
\* on the row.  Returns the locals and found_valid_subject.
redirect_search(loc, i, tr, m, target_node_id, found) ==
    IF loc.exc # "" \/ m > Len(transformers) THEN [loc |-> loc, found |-> found]
    ELSE IF tr.from_subject = transformers[m].target
    THEN redirect_match(loc, i, tr, m, target_node_id, transformers[m],
                        call(transformers[m], loc.row, i))
    ELSE redirect_search(loc, i, tr, m + 1, target_node_id, found)

\* The end of the from_subject branch: s is the outcome of the search; when no
\* transformer targets the redirected subject type, a ConfigError.
redirected(s, i, j) ==
    IF s.loc.exc # "" \/ s.found THEN s.loc
    ELSE local_error(s.loc, "ConfigError", i, j)

\* Mutant of subject_edge: the edge is appended twice.
subject_edge_twice(l1, tr, tid, source_node_id, ep) ==
    IF ep.exc # "" THEN [l1 EXCEPT !.exc = ep.exc, !.row = ep.row]
    ELSE [l1 EXCEPT !.row = ep.row,
                    !.edges = @ \o <<make_edge(tr.edge, edge_end(tid),
                                               edge_end(source_node_id), ep.val),
                                     make_edge(tr.edge, edge_end(tid),
                                               edge_end(source_node_id), ep.val)>>]

\* The else branch: the edge from the row's subject to the target, with the
\* properties ep of the edge type.
subject_edge(l1, tr, tid, source_node_id, ep) ==
    IF ep.exc # "" THEN [l1 EXCEPT !.exc = ep.exc, !.row = ep.row]
    ELSE [l1 EXCEPT !.row = ep.row,
                    !.edges = Append(@, make_edge(tr.edge, edge_end(tid),
                                                  edge_end(source_node_id),
                                                  ep.val))]

\* `if transformer.from_subject: ... else: ...` once the target node is
\* appended.
target_edges(l1, i, j, tr, tid, source_node_id) ==
    IF tr.from_subject # ""
    THEN redirected(redirect_search(l1, i, tr, 1, tid, FALSE), i, j)
    ELSE subject_edge(l1, tr, tid, source_node_id,
                      properties(fields(types[tr.edge]), l1.row, i, tr.edge))

\* The `if target_id:` branch: tid is the identifier make_id returned and np
\* the properties of the target node.
target_node(l0, i, j, tr, tid, np, source_node_id) ==
    IF tid.exc # "" THEN [l0 EXCEPT !.exc = tid.exc]
    ELSE IF np.exc # "" THEN [l0 EXCEPT !.exc = np.exc, !.row = np.row]
    ELSE target_edges([l0 EXCEPT !.row = np.row,
                                 !.nodes = Append(@, make_node(tr.target,
                                               element_id(tid), np.val))],
                      i, j, tr, tid, source_node_id)

\* The body of `for target_id in transformer(row, i)` for one target_id of
\* the j-th transformer tr; source_node_id is the row's subject identifier.
target_step(loc, i, j, tr, target_id, source_node_id) ==
    IF target_id = <<>>
    THEN local_error([loc EXCEPT !.nb_nodes = @ + 1], "TransformerDataError", i, j)
    ELSE target_node([loc EXCEPT !.nb_nodes = @ + 1], i, j, tr,
                     adapter_make_id(tr.target, target_id),
                     properties(tr.properties_of, loc.row, i, tr.target),
                     source_node_id)

RECURSIVE target_values(_, _, _, _, _, _, _)
\* `for target_id in transformer(row, i)` over the values vals[k..].
target_values(loc, i, j, tr, vals, k, source_node_id) ==
    IF loc.exc # "" \/ k > Len(vals) THEN loc
    ELSE target_values(target_step(loc, i, j, tr, vals[k], source_node_id),
                       i, j, tr, vals, k + 1, source_node_id)

RECURSIVE transformer_loop(_, _, _, _)
\* One turn of `for j, transformer in enumerate(self.transformers)`: r is
\* what the j-th transformer yields on the row.  The values a transformer
\* yields before it raises are handled first.
transformer_turn(l0, i, j, source_node_id, r) ==
    transformer_loop(
        after_values(target_values([l0 EXCEPT !.row = r.row], i, j,
                                   transformers[j], r.vals, 1, source_node_id),
                     r),
        i, j + 1, source_node_id)

\* `for j, transformer in enumerate(self.transformers)` from position j on.
transformer_loop(loc, i, j, source_node_id) ==
    IF loc.exc # "" \/ j > Len(transformers) THEN loc
    ELSE transformer_turn([loc EXCEPT !.transformations = @ + 1], i, j,
                          source_node_id, call(transformers[j], loc.row, i))

\* The subject node of the row, with the properties p, then the transformers.
subject_node(l1, i, sid, p) ==
    IF p.exc # "" THEN [l1 EXCEPT !.exc = p.exc, !.row = p.row]
    ELSE transformer_loop(
            [l1 EXCEPT !.row = p.row,
                       !.nodes = Append(@, make_node(subject_transformer.target,
                                                     element_id(sid), p.val))],
            i, 1, sid)

\* `if source_node_id: ... else: ...` on the identifier sid of the subject: an
\* identifier of None is a DeclarationError, and the transformers still run.
subject_made(l1, i, sid) ==
    IF sid.exc # "" THEN [l1 EXCEPT !.exc = sid.exc]
    ELSE IF sid.none
    THEN transformer_loop(local_error(l1, "DeclarationError", i, 0), i, 1, sid)
    ELSE subject_node(l1, i, sid,
                      properties(subject_transformer.properties_of, l1.row, i,
                                 subject_transformer.target))

\* `source_id = source_ids[0]` and the identifier of the subject, once the
\* number of subject values was checked (l1 holds the error, if recorded).
subject_first(l1, i, vals) ==
    IF l1.exc # "" THEN l1
    ELSE IF vals = <<>> THEN [l1 EXCEPT !.exc = "IndexError"]
    ELSE subject_made(l1, i,
                      adapter_make_id(subject_transformer.target, vals[1]))

\* The head of process_row: s is what the subject transformer yields; more
\* than one value is a TransformerInterfaceError.
subject_values(l0, i, s) ==
    IF s.exc # "" THEN [l0 EXCEPT !.exc = s.exc]
    ELSE subject_first(IF Len(s.vals) > 1
                       THEN local_error(l0, "TransformerInterfaceError", i, 0)
                       ELSE l0,
                       i, s.vals)

\* process_row((i, row)) of PandasAdapter.run: the local lists and counters
\* it returns, or the exception that leaves it.
process_row_of(i, s) == subject_values([Locals(s.row) EXCEPT !.row = s.row], i, s)

process_row(i, row) == process_row_of(i, call(subject_transformer, row, i))

\* History bookkeeping: record a declaration that returned a class.
Recorded(name, decl) ==
    /\ firstBy' = IF firstBy[parser][name].kind = "none"
                  THEN [firstBy EXCEPT ![parser][name] = decl]
                  ELSE firstBy
    /\ targetsBy' = IF decl.kind = "edge"
                    THEN [targetsBy EXCEPT ![parser][name] = Append(@, decl.target)]
                    ELSE targetsBy

\* The namespace of the `types` module in a fresh process: no class declared.
FreshModule == [n \in TypeNames \cup MappingTypeNames |-> NoClass]

\* No transformer was called and no mapping parsed on its own.
NoYield ==
    [done |-> FALSE, transformer |-> Transformer("map", <<>>, "", "", "", <<>>),
     row |-> <<>>, vals |-> <<>>, exc |-> "", row_after |-> <<>>]

\* A name the `transformer` module does not have, and the argument of a
\* register call that was not made.
NoTransformer == [name |-> "", kind |-> "none"]
\* The transformer classes the module defines (those the mappings use).
BuiltinTransformers == {"map", "cat", "translate"}
\* Names classes are registered under.
RegisterNames == {"user_transformer", "lookup", "upper", "first", "map"}
\* The `transformer` module as imported: its own classes, each a subclass of
\* base.Transformer.
ImportedModule ==
    [n \in BuiltinTransformers \cup RegisterNames |->
        IF n \in BuiltinTransformers
        THEN [name |-> n, kind |-> "Transformer"] ELSE NoTransformer]
\* No register call was made.
NoRegister ==
    /\ transformer_module = ImportedModule
    /\ registered = NoTransformer
NoProbe ==
    /\ called = NoYield
    /\ mapping = Mapping("map", <<>>, "", <<>>)
    /\ NoRegister

\* No adapter was configured / no run is in progress (the specifications of
\* the registry and of make_id alone).
NoAdapter ==
    /\ df = <<>>
    /\ subject_transformer = Transformer("map", <<>>, "", "", "", <<>>)
    /\ transformers = <<>>
    /\ metadata = {}
    /\ parallel_mapping = 0
NoRun ==
    /\ pc = "ready"
    /\ cursor = 1
    /\ worker = <<>>
    /\ results = <<>>
    /\ nodes = <<>>
    /\ edges = <<>>
    /\ errors = <<>>
    /\ counts = [nb_rows |-> 0, nb_transformations |-> 0, nb_nodes |-> 0]
    /\ raised = ""

InitDeclare ==
    /\ types = FreshModule
    /\ parser = 1
    /\ ndecl = 0
    /\ exc = ""
    /\ firstBy = [p \in 1..MaxParsers |-> [n \in TypeNames |-> NoDecl]]
    /\ targetsBy = [p \in 1..MaxParsers |-> [n \in TypeNames |-> <<>>]]
    /\ type_affix = "suffix"
    /\ type_affix_sep = <<":">>
    /\ raise_errors = TRUE
    /\ made = NoCall
    /\ NoProbe
    /\ NoAdapter
    /\ NoRun

\* A call of make_node_class(name, properties) by the current parser.
MakeNodeClass(name, props) ==
    /\ ndecl < MaxDecls
    /\ LET r == make_node_class(types, name, props) IN
        /\ types' = r.module
        /\ exc' = r.exc
        /\ Recorded(name, [kind |-> "node", properties |-> props,
                           source |-> "", target |-> ""])
    /\ ndecl' = ndecl + 1
    /\ UNCHANGED parser

\* A call of make_edge_class(name, source_t, target_t, properties) by the
\* current parser.
MakeEdgeClass(name, source_t, target_t, props) ==
    /\ ndecl < MaxDecls
    /\ LET r == make_edge_class(types, name, source_t, target_t, props) IN
        /\ types' = r.module
        /\ exc' = r.exc
        /\ IF r.exc = ""
           THEN Recorded(name, [kind |-> "edge", properties |-> props,
                                source |-> source_t, target |-> target_t])
           ELSE UNCHANGED <<firstBy, targetsBy>>
    /\ ndecl' = ndecl + 1
    /\ UNCHANGED parser

\* extract_all builds a new YamlParser on the default module (`types`) for
\* the next configuration: the namespace is the same module object.
NewParser ==
    /\ parser < MaxParsers
    /\ parser' = parser + 1
    /\ exc' = ""
    /\ UNCHANGED <<types, ndecl, firstBy, targetsBy>>

NextDeclare ==
    \/ \E n \in NodeNames, p \in PropDicts : MakeNodeClass(n, p)
    \/ \E n \in EdgeNames, s \in NodeNames, t \in NodeNames, p \in PropDicts :
          MakeEdgeClass(n, s, t, p)
    \/ NewParser

SpecDeclare == InitDeclare /\ [][NextDeclare /\ UNCHANGED <<adapterVars, made, probeVars, configVars, runVars>>]_vars

\* ------------------------------------------------ make_id: the specification
\* Separators, type names and raw values make_id is called with.
Separators == {<<":">>, <<>>, <<"|">>}
IdTypes == {"Gene", "Disease"}
RawValues == {<<>>, <<"BRCA1">>, <<"D001">>, <<"x", ":", "y">>}

InitMakeId ==
    /\ types = FreshModule
    /\ parser = 1
    /\ ndecl = 0
    /\ exc = ""
    /\ firstBy = [p \in 1..MaxParsers |-> [n \in TypeNames |-> NoDecl]]
    /\ targetsBy = [p \in 1..MaxParsers |-> [n \in TypeNames |-> <<>>]]
    /\ type_affix \in TypeAffixes
    /\ type_affix_sep \in Separators
    /\ raise_errors \in BOOLEAN
    /\ made = NoCall
    /\ NoProbe
    /\ NoAdapter
    /\ NoRun

\* A call adapter.make_id(entry_type, entry_name).
MakeId(entry_type, entry_name) ==
    /\ LET r == make_id(type_affix, type_affix_sep, raise_errors,
                        entry_type, entry_name) IN
        made' = [called |-> TRUE, entry_type |-> entry_type,
                 entry_name |-> entry_name,
                 id |-> r.id, none |-> r.none, exc |-> r.exc]
    /\ UNCHANGED <<declVars, adapterVars, probeVars, configVars, runVars>>

NextMakeId == \E T \in IdTypes, v \in RawValues : MakeId(T, v)

SpecMakeId == InitMakeId /\ [][NextMakeId]_vars

\* ------------------------------------- a transformer call: the specification
\* Columns a transformer is declared on, and the rows it is called on.
CallColumns == {<<"disease_id">>, <<"gene_id", "disease_id">>}
CallRows ==
    {[gene_id |-> g, disease_id |-> d] :
        g \in {<<"BRCA1">>, <<"O", SingleQuote, "Neil">>},
        d \in {<<"D001">>, <<"D002">>, <<>>}}

\* The lookup table of the translate transformers.
CallTable == {<< <<"D001">>, <<"BreastCancer">> >>}

\* The transformer objects called: map and cat under validators that reject
\* nothing or one value, translate with the table given inline or loaded
\* from a file, each with raise_errors not given, true or false.
CallTransformers ==
    {configured(Transformer(kind, c, "Disease", "", "", <<>>),
                [validate_output |-> r, raise_errors |-> f]) :
        kind \in {"map", "cat"}, c \in CallColumns,
        r \in {{}, {<<"BRCA1">>}, {<<"D002">>}},
        f \in {"unset", "raise", "collect"}}
    \cup
    {configured(translating(Transformer("translate", c, "Disease", "", "", <<>>),
                            CallTable, o),
                [validate_output |-> {}, raise_errors |-> f]) :
        c \in CallColumns, o \in {"inline", "file"},
        f \in {"unset", "raise", "collect"}}

InitCall ==
    /\ types = FreshModule
    /\ parser = 1
    /\ ndecl = 0
    /\ exc = ""
    /\ firstBy = [p \in 1..MaxParsers |-> [n \in TypeNames |-> NoDecl]]
    /\ targetsBy = [p \in 1..MaxParsers |-> [n \in TypeNames |-> <<>>]]
    /\ type_affix = "suffix"
    /\ type_affix_sep = <<":">>
    /\ raise_errors \in BOOLEAN
    /\ made = NoCall
    /\ \E t \in CallTransformers, row \in CallRows :
          called = [NoYield EXCEPT !.transformer = t, !.row = row,
                                   !.row_after = row]
    /\ mapping = Mapping("map", <<>>, "", <<>>)
    /\ NoRegister
    /\ NoAdapter
    /\ NoRun

\* What list(t(row, i)) leaves: the values yielded, the exception that ended
\* the iteration, and the row object after the call.
Called(t, row, r) ==
    [done |-> TRUE, transformer |-> t, row |-> row, vals |-> r.vals,
     exc |-> r.exc, row_after |-> r.row]

\* The transformer is called on the row and iterated to its end.
Call ==
    /\ ~called.done
    /\ called' = Called(called.transformer, called.row,
                        call(called.transformer, called.row, 0))
    /\ UNCHANGED <<declVars, adapterVars, made, mapping, registerVars, configVars,
                   runVars>>

NextCall == Call

SpecCall == InitCall /\ [][NextCall]_vars

\* ------------------------------------------- register: the specification
\* Mutant of register: a class that does not inherit from base.Transformer
\* is set in the module all the same.
register_unchecked(module, transformer_class) ==
    [module |-> [module EXCEPT ![transformer_class.name] = transformer_class],
     exc |-> ""]

\* transformer.register(transformer_class).  For a class that does not
\* inherit from base.Transformer the function evaluates `self.error(...)`,
\* and the name `self` is not defined in a module-level function: NameError.
\* Otherwise the class is set in the module under its __name__.
register(module, transformer_class) ==
    IF transformer_class.kind # "Transformer"
    THEN [module |-> module, exc |-> "NameError"]
    ELSE [module |-> [module EXCEPT ![transformer_class.name] = transformer_class],
          exc |-> ""]

\* The head of Declare.make_transformer_class(transformer_type, ...): the
\* exception it raises (the parser raises its errors), "" when the class is
\* found in the module and inherits from base.Transformer.
make_transformer_class(module, transformer_type) ==
    IF module[transformer_type].kind = "none" THEN "DeclarationError"
    ELSE IF module[transformer_type].kind # "Transformer" THEN "DeclarationError"
    ELSE ""

\* What register is called with: a subclass of base.Transformer written by
\* the user (marked as such, to tell it from a class of the module), or a
\* class that inherits from something else.
RegisterKinds == {"Transformer", "class"}
UserClasses ==
    {[name |-> n, kind |-> k, user |-> TRUE] :
        n \in RegisterNames, k \in RegisterKinds}

InitRegister ==
    /\ types = FreshModule
    /\ parser = 1
    /\ ndecl = 0
    /\ exc = ""
    /\ firstBy = [p \in 1..MaxParsers |-> [n \in TypeNames |-> NoDecl]]
    /\ targetsBy = [p \in 1..MaxParsers |-> [n \in TypeNames |-> <<>>]]
    /\ type_affix = "suffix"
    /\ type_affix_sep = <<":">>
    /\ raise_errors = TRUE
    /\ made = NoCall
    /\ NoProbe
    /\ NoAdapter
    /\ NoRun

\* A call transformer.register(c).
Register(c) ==
    /\ transformer_module' = register(transformer_module, c).module
    /\ exc' = register(transformer_module, c).exc
    /\ registered' = c
    /\ UNCHANGED <<types, parser, ndecl, firstBy, targetsBy>>
    /\ UNCHANGED <<adapterVars, made, called, mapping, configVars, runVars>>

NextRegister == \E c \in UserClasses : Register(c)

SpecRegister == InitRegister /\ [][NextRegister]_vars

\* --------------------------------------------------- the engine: run()
\* ------------------------------------------------------------------ bounds
\* Rows of the data frame.
MaxRows == 2
\* Entries of the `transformers` list of a mapping.
MaxTransformers == 2

\* Cell values: identifiers, and the empty string.
GeneIds == {<<"BRCA1">>, <<"TP53">>}
DiseaseIds == {<<"D001">>, <<>>}
\* The rows a data frame is made of (every row has both columns): the gene
\* BRCA1 with its disease, and the gene TP53 with an empty disease cell.
Rows ==
    {r \in [gene_id : GeneIds, disease_id : DiseaseIds] :
        (r.gene_id = <<"TP53">>) <=> (r.disease_id = <<>>)}

\* Sequences of at most n elements of S.
SeqUpTo(S, n) == UNION {[1..m -> S] : m \in 0..n}

DataFrames == SeqUpTo(Rows, MaxRows)

\* Subject declarations: the subject from one column, or from two (a
\* transformer that yields two values on rows whose cells are not empty).
SubjectColumns == {<<"gene_id">>, <<"gene_id", "disease_id">>}

\* Structural entries: the plain one of the example, and entries that take
\* their subject from the Disease nodes (from_subject), on one or two columns.
Entries ==
    {Entry("map", <<"disease_id">>, "Disease", "ASSOCIATED_WITH", "", <<>>, <<>>)}
    \cup {Entry("map", c, "Phenotype", "HAS_PHENOTYPE", "Disease", <<>>, <<>>) :
             c \in {<<"disease_id">>, <<"gene_id", "disease_id">>}}

Mappings ==
    {Mapping("map", c, "Gene", es) :
        c \in SubjectColumns, es \in SeqUpTo(Entries, MaxTransformers)}

\* The state after extract_all has parsed a mapping in a fresh process and
\* constructed the adapter, for every mapping, data frame, affix policy,
\* failure policy and execution mode.
Init ==
    /\ \E config \in Mappings :
          LET parsed == yaml_parse(config, FreshModule) IN
          /\ parsed.exc = ""
          /\ types = parsed.module
          /\ subject_transformer = parsed.subject_transformer
          /\ transformers = parsed.transformers
          /\ metadata = parsed.metadata
    /\ parser = 1
    /\ ndecl = 0
    /\ exc = ""
    /\ firstBy = [p \in 1..MaxParsers |-> [n \in TypeNames |-> NoDecl]]
    /\ targetsBy = [p \in 1..MaxParsers |-> [n \in TypeNames |-> <<>>]]
    /\ made = NoCall
    /\ NoProbe
    /\ df \in DataFrames
    /\ type_affix \in {"suffix", "none"}
    /\ type_affix_sep = <<":">>
    /\ raise_errors \in BOOLEAN
    /\ parallel_mapping \in {0, 1}
    /\ pc = "ready"
    /\ cursor = 1
    /\ worker = [k \in DOMAIN df |-> "pending"]
    /\ results = [k \in DOMAIN df |-> [Locals(df[k]) EXCEPT !.rows = 0]]
    /\ nodes = <<>>
    /\ edges = <<>>
    /\ errors = <<>>
    /\ counts = [nb_rows |-> 0, nb_transformations |-> 0, nb_nodes |-> 0]
    /\ raised = ""

\* Adapter.nodes_append / edges_append of a list, errors += and the
\* counters, for what one process_row call returned.
Appended(r) ==
    /\ nodes' = nodes \o r.nodes
    /\ edges' = edges \o r.edges
    /\ errors' = errors \o r.errors
    /\ counts' = [nb_rows |-> counts.nb_rows + r.rows,
                  nb_transformations |-> counts.nb_transformations + r.transformations,
                  nb_nodes |-> counts.nb_nodes + r.nb_nodes]

\* run() starts: the output lists are reset.
Run ==
    /\ pc = "ready"
    /\ pc' = "rows"
    /\ nodes' = <<>>
    /\ edges' = <<>>
    /\ UNCHANGED <<cursor, worker, results, errors, counts, raised>>
    /\ UNCHANGED <<declVars, adapterVars, made, probeVars, configVars>>

\* One turn of the sequential loop (parallel_mapping == 0): process_row on
\* the next row, then the appends; an exception leaves run().
SequentialRow ==
    /\ pc = "rows"
    /\ parallel_mapping = 0
    /\ cursor <= Len(df)
    /\ LET r == process_row(cursor - 1, df[cursor]) IN
        IF r.exc # ""
        THEN /\ raised' = r.exc
             /\ pc' = "aborted"
             /\ UNCHANGED <<cursor, nodes, edges, errors, counts>>
        ELSE /\ Appended(r)
             /\ cursor' = cursor + 1
             /\ UNCHANGED <<pc, raised>>
    /\ UNCHANGED <<worker, results>>
    /\ UNCHANGED <<declVars, adapterVars, made, probeVars, configVars>>

\* The sequential loop ends.
SequentialEnd ==
    /\ pc = "rows"
    /\ parallel_mapping = 0
    /\ cursor > Len(df)
    /\ pc' = "log"
    /\ UNCHANGED <<cursor, worker, results, nodes, edges, errors, counts, raised>>
    /\ UNCHANGED <<declVars, adapterVars, made, probeVars, configVars>>

\* A thread of the executor picks the task of row k (parallel_mapping > 0;
\* ThreadPoolExecutor() is built without max_workers).
WorkerStart(k) ==
    /\ pc = "rows"
    /\ parallel_mapping > 0
    /\ worker[k] = "pending"
    /\ worker' = [worker EXCEPT ![k] = "running"]
    /\ UNCHANGED <<pc, cursor, results, nodes, edges, errors, counts, raised>>
    /\ UNCHANGED <<declVars, adapterVars, made, probeVars, configVars>>

\* The task of row k ends: process_row returned or raised.
WorkerFinish(k) ==
    /\ pc = "rows"
    /\ parallel_mapping > 0
    /\ worker[k] = "running"
    /\ worker' = [worker EXCEPT ![k] = "done"]
    /\ results' = [results EXCEPT ![k] = process_row(k - 1, df[k])]
    /\ UNCHANGED <<pc, cursor, nodes, edges, errors, counts, raised>>
    /\ UNCHANGED <<declVars, adapterVars, made, probeVars, configVars>>

\* Mutant of Collected: only the result of the last row is appended.
Collected_last(k) ==
    IF k = 0 THEN [Locals(<<>>) EXCEPT !.rows = 0] ELSE results[k]

RECURSIVE Collected(_)
\* The results of the rows 1..k, appended in row order.
Collected(k) ==
    IF k = 0
    THEN [Locals(<<>>) EXCEPT !.rows = 0]
    ELSE LET c == Collected(k - 1)
             r == results[k]
         IN [c EXCEPT !.nodes = @ \o r.nodes, !.edges = @ \o r.edges,
                      !.errors = @ \o r.errors, !.rows = @ + r.rows,
                      !.transformations = @ + r.transformations,
                      !.nb_nodes = @ + r.nb_nodes]

\* list(executor.map(...)) once every task has ended: the exception of the
\* first row that raised leaves run(); otherwise the results are appended in
\* row order.
Collect ==
    /\ pc = "rows"
    /\ parallel_mapping > 0
    /\ \A k \in DOMAIN df : worker[k] = "done"
    /\ IF \E k \in DOMAIN df : results[k].exc # ""
       THEN /\ raised' = results[CHOOSE k \in DOMAIN df :
                             /\ results[k].exc # ""
                             /\ \A m \in 1..(k - 1) : results[m].exc = ""].exc
            /\ pc' = "aborted"
            /\ UNCHANGED <<nodes, edges, errors, counts>>
       ELSE /\ Appended(Collected(Len(df)))
            /\ pc' = "log"
            /\ UNCHANGED raised
    /\ UNCHANGED <<cursor, worker, results>>
    /\ UNCHANGED <<declVars, adapterVars, made, probeVars, configVars>>

\* The final logging of run(), which then returns.
FinalLog ==
    /\ pc = "log"
    /\ pc' = "done"
    /\ UNCHANGED <<cursor, worker, results, nodes, edges, errors, counts, raised>>
    /\ UNCHANGED <<declVars, adapterVars, made, probeVars, configVars>>

Next ==
    \/ Run
    \/ SequentialRow
    \/ SequentialEnd
    \/ \E k \in DOMAIN df : WorkerStart(k)
    \/ \E k \in DOMAIN df : WorkerFinish(k)
    \/ Collect
    \/ FinalLog

Spec == Init /\ [][Next]_vars

\* ------------------------------------------- parsing: the specification
\* The entries of the mappings parsed: a structural entry, a property entry
\* for the subject, entries that declare both properties and a target (with
\* and without an edge), and a target without edge.
ParseEntries ==
    {Entry("map", <<"disease_id">>, "Disease", "ASSOCIATED_WITH", "", <<>>, <<>>),
     Entry("map", <<"gene_id">>, "", "", "", <<"name">>, <<>>),
     Entry("map", <<"disease_id">>, "Disease", "", "", <<"name">>, <<>>),
     Entry("map", <<"disease_id">>, "Disease", "ASSOCIATED_WITH", "", <<"name">>, <<>>),
     Entry("map", <<"disease_id">>, "Disease", "", "", <<>>, <<>>)}

\* The `metadata` blocks: none, plain items, the directive alone, and the
\* directive naming a key that the block (or the directive itself) holds.
MetadataLists ==
    {<<>>,
     << <<"source", <<"db">>>> >>,
     << <<"source", <<"db">>>>, <<AddSourceColumnNamesAs, <<"columns">>>> >>,
     << <<"source", <<"db">>>>, <<AddSourceColumnNamesAs, <<"source">>>> >>,
     << <<AddSourceColumnNamesAs, <<"source">>>>, <<"source", <<"db">>>> >>}

ParseMappings ==
    {with_metadata_list(Mapping("map", <<"gene_id">>, "Gene", es), md) :
        es \in SeqUpTo(ParseEntries, MaxTransformers), md \in MetadataLists}

\* A mapping was loaded; no YamlParser was called on it yet.
InitParse ==
    /\ types = FreshModule
    /\ parser = 0
    /\ ndecl = 0
    /\ exc = ""
    /\ firstBy = [p \in 1..MaxParsers |-> [n \in TypeNames |-> NoDecl]]
    /\ targetsBy = [p \in 1..MaxParsers |-> [n \in TypeNames |-> <<>>]]
    /\ type_affix = "suffix"
    /\ type_affix_sep = <<":">>
    /\ raise_errors = TRUE
    /\ made = NoCall
    /\ called = NoYield
    /\ mapping \in ParseMappings
    /\ NoRegister
    /\ NoAdapter
    /\ NoRun

\* What the caller of YamlParser(config, module)() holds once the call ended:
\* the declared types stay in the module; the transformers and the metadata
\* are returned unless an exception left the call.
ParseReturned(r) ==
    /\ types' = r.module
    /\ exc' = r.exc
    /\ subject_transformer' =
          IF r.exc = "" THEN r.subject_transformer ELSE subject_transformer
    /\ transformers' = IF r.exc = "" THEN r.transformers ELSE transformers
    /\ metadata' = IF r.exc = "" THEN r.metadata ELSE metadata

\* YamlParser(mapping, types)() is called.
Parse ==
    /\ parser = 0
    /\ parser' = 1
    /\ ParseReturned(yaml_parse(mapping, types))
    /\ UNCHANGED <<ndecl, firstBy, targetsBy, df, parallel_mapping>>
    /\ UNCHANGED <<adapterVars, made, probeVars, runVars>>

NextParse == Parse

SpecParse == InitParse /\ [][NextParse]_vars

\* ------------------------------------- the engine on empty and nan cells
\* A cell that is the empty string, and str() of a cell that is nan.
EmptyCell == <<>>
NanCell == <<"nan">>

\* Rows whose disease_id cell is an identifier, empty or nan.
CellRows ==
    {[gene_id |-> <<"BRCA1">>, disease_id |-> d] :
        d \in {<<"D001">>, EmptyCell, NanCell}}

\* The validate_output rules of an entry, as the values the compiled
\* validator rejects: no rule, or rules that refuse empty and nan values.
OutputRules == {{}, {EmptyCell, NanCell}}

\* Mappings of Gene rows with a map transformer on disease_id, under each set
\* of rules, with or without the raise_errors keyword, alone or followed by a
\* second transformer on gene_id.
CellMappings ==
    {Mapping("map", <<"gene_id">>, "Gene",
             <<with_raise_errors(
                 validated(Entry("map", <<"disease_id">>, "Disease",
                                 "ASSOCIATED_WITH", "", <<>>, <<>>), r), f)>>
             \o rest) :
        r \in OutputRules, f \in {"unset", "collect"},
        rest \in {<<>>, <<Entry("map", <<"gene_id">>, "Phenotype",
                                "HAS_PHENOTYPE", "", <<>>, <<>>)>>}}

\* The state after extract_all has parsed one of these mappings in a fresh
\* process and constructed the adapter on a data frame of such rows.
InitCells ==
    /\ \E c \in CellMappings :
          /\ yaml_parse(c, FreshModule).exc = ""
          /\ types = yaml_parse(c, FreshModule).module
          /\ subject_transformer = yaml_parse(c, FreshModule).subject_transformer
          /\ transformers = yaml_parse(c, FreshModule).transformers
          /\ metadata = yaml_parse(c, FreshModule).metadata
    /\ parser = 1
    /\ ndecl = 0
    /\ exc = ""
    /\ firstBy = [p \in 1..MaxParsers |-> [n \in TypeNames |-> NoDecl]]
    /\ targetsBy = [p \in 1..MaxParsers |-> [n \in TypeNames |-> <<>>]]
    /\ made = NoCall
    /\ NoProbe
    /\ df \in SeqUpTo(CellRows, MaxRows)
    /\ type_affix = "suffix"
    /\ type_affix_sep = <<":">>
    /\ raise_errors \in BOOLEAN
    /\ parallel_mapping \in {0, 1}
    /\ pc = "ready"
    /\ cursor = 1
    /\ worker = [k \in DOMAIN df |-> "pending"]
    /\ results = [k \in DOMAIN df |-> [Locals(df[k]) EXCEPT !.rows = 0]]
    /\ nodes = <<>>
    /\ edges = <<>>
    /\ errors = <<>>
    /\ counts = [nb_rows |-> 0, nb_transformations |-> 0, nb_nodes |-> 0]
    /\ raised = ""

SpecCells == InitCells /\ [][Next]_vars

\* ------------------------- the engine on translations and property entries
\* A lookup table whose translations are themselves keys of the table.
ChainTable == {<< <<"D001">>, <<"D002">> >>, << <<"D002">>, <<"D003">> >>}

\* Rows of three columns whose gene_id cell is an identifier or empty.
VariantRows ==
    {[gene_id |-> g, disease_id |-> <<"D001">>, phenotype_id |-> <<"HP01">>] :
        g \in {<<"BRCA1">>, <<>>}}

\* The entries of these mappings: the Disease transformer of the example, a
\* translate transformer to Disease, a Phenotype transformer whose edges
\* start at the Disease nodes (on one column, on two), and a property entry
\* on gene_id.
DiseaseEntry ==
    Entry("map", <<"disease_id">>, "Disease", "ASSOCIATED_WITH", "", <<>>, <<>>)
TranslateEntry(table, origin) ==
    with_translations(Entry("translate", <<"disease_id">>, "Disease",
                            "ASSOCIATED_WITH", "", <<>>, <<>>), table, origin)
PhenotypeEntry ==
    Entry("map", <<"gene_id">>, "Phenotype", "HAS_PHENOTYPE", "Disease", <<>>, <<>>)
PhenotypesEntry ==
    Entry("map", <<"gene_id", "phenotype_id">>, "Phenotype", "HAS_PHENOTYPE",
          "Disease", <<>>, <<>>)
PropertyEntry(names, objects) ==
    Entry("map", <<"gene_id">>, "", "", "", names, objects)

\* The property names and the for_objects lists of the property entries.
PropertyNames == {<<"name">>, <<"name", "label">>}
ForObjects ==
    {<<>>, <<"Disease">>, <<"HAS_PHENOTYPE">>, <<"ASSOCIATED_WITH">>,
     <<"Gene", "Disease">>}

VariantEntries ==
    {<<>>, <<DiseaseEntry>>}
    \cup {<<PhenotypeEntry, TranslateEntry(t, o)>> :
             t \in {CallTable, ChainTable}, o \in {"inline", "file"}}
    \cup {<<TranslateEntry(t, o), PhenotypeEntry>> :
             t \in {CallTable, ChainTable}, o \in {"inline", "file"}}
    \cup {<<PhenotypesEntry, TranslateEntry(ChainTable, "file")>>}
    \cup {<<DiseaseEntry, PhenotypeEntry, PropertyEntry(n, ob)>> :
             n \in PropertyNames, ob \in ForObjects}

\* Mappings of Gene rows over these entries, with or without a metadata
\* block, and mappings whose subject has validation rules that refuse BRCA1,
\* its raise_errors keyword given as false or not given.
VariantMappings ==
    {with_metadata_list(Mapping("map", <<"gene_id">>, "Gene", es), md) :
        es \in VariantEntries, md \in {<<>>, << <<"source", <<"db">>>> >>}}
    \cup {[Mapping("map", <<"gene_id">>, "Gene", es) EXCEPT
              !.row = with_raise_errors(validated(@, {<<"BRCA1">>}), f)] :
             es \in {<<>>, <<DiseaseEntry>>}, f \in {"unset", "collect"}}

\* The state after extract_all has parsed one of these mappings in a fresh
\* process and constructed the adapter on a data frame of such rows.
InitVariants ==
    /\ mapping \in VariantMappings
    /\ yaml_parse(mapping, FreshModule).exc = ""
    /\ types = yaml_parse(mapping, FreshModule).module
    /\ subject_transformer = yaml_parse(mapping, FreshModule).subject_transformer
    /\ transformers = yaml_parse(mapping, FreshModule).transformers
    /\ metadata = yaml_parse(mapping, FreshModule).metadata
    /\ parser = 1
    /\ ndecl = 0
    /\ exc = ""
    /\ firstBy = [p \in 1..MaxParsers |-> [n \in TypeNames |-> NoDecl]]
    /\ targetsBy = [p \in 1..MaxParsers |-> [n \in TypeNames |-> <<>>]]
    /\ made = NoCall
    /\ called = NoYield
    /\ NoRegister
    /\ df \in SeqUpTo(VariantRows, MaxRows)
    /\ type_affix = "suffix"
    /\ type_affix_sep = <<":">>
    /\ raise_errors \in BOOLEAN
    /\ parallel_mapping \in {0, 1}
    /\ pc = "ready"
    /\ cursor = 1
    /\ worker = [k \in DOMAIN df |-> "pending"]
    /\ results = [k \in DOMAIN df |-> [Locals(df[k]) EXCEPT !.rows = 0]]
    /\ nodes = <<>>
    /\ edges = <<>>
    /\ errors = <<>>
    /\ counts = [nb_rows |-> 0, nb_transformations |-> 0, nb_nodes |-> 0]
    /\ raised = ""

SpecVariants == InitVariants /\ [][Next]_vars

\* ---------------------------------------------------- registry: the claims
\* The first declaration of name n that returned a class, over all parsers.
FirstDecl(n) ==
    IF \A p \in 1..MaxParsers : firstBy[p][n].kind = "none"
    THEN NoDecl
    ELSE LET p == CHOOSE q \in 1..MaxParsers :
                    /\ firstBy[q][n].kind # "none"
                    /\ \A r \in 1..(q - 1) : firstBy[r][n].kind = "none"
         IN firstBy[p][n]

RECURSIVE TargetsUpTo(_, _)
\* The targets passed by the edge declarations of n, parsers 1..p, in call order.
TargetsUpTo(p, n) ==
    IF p = 0 THEN <<>> ELSE TargetsUpTo(p - 1, n) \o targetsBy[p][n]

DeclTargets(n) == TargetsUpTo(MaxParsers, n)

RECURSIVE Dedup(_)
\* s without the later occurrences of each element.
Dedup(s) ==
    IF s = <<>> THEN <<>>
    ELSE LET front == Dedup(SubSeq(s, 1, Len(s) - 1)) IN
         IF s[Len(s)] \in Range(front) THEN front ELSE Append(front, s[Len(s)])

\* The fields() of the class the first declaration of n created.
FieldsAtFirst(n) ==
    IF FirstDecl(n).kind = "node"
    THEN values(FirstDecl(n).properties)
    ELSE FirstDecl(n).properties

\* C1: after an edge name was declared with target A and then with another
\* target B (two declarations in all), its target_type() list is [A, B].
C1_RedeclareAppendsTarget ==
    \A n \in TypeNames :
        ( /\ types[n].kind = "edge"
          /\ Len(DeclTargets(n)) = 2
          /\ DeclTargets(n)[1] # DeclTargets(n)[2] )
        => types[n].targets = <<DeclTargets(n)[1], DeclTargets(n)[2]>>

\* C1 witness: E was declared with target A, then with target B.
C1_Witness ==
    /\ DeclTargets("E") = <<"A", "B">>
    /\ types["E"].kind = "edge"

\* C2: every name that a declaration registered is still registered, as the
\* same kind of class, and its fields() contain every field of its first
\* registration, whatever was declared for it afterwards.
C2_FieldsNeverLost ==
    \A n \in TypeNames :
        FirstDecl(n).kind # "none" =>
            /\ types[n].kind = FirstDecl(n).kind
            /\ Range(FieldsAtFirst(n)) \subseteq Range(fields(types[n]))

\* C2 witness: B was registered with property p by the first parser and
\* declared again, without properties, by the second one.
C2_Witness ==
    /\ firstBy[1]["B"].kind = "node"
    /\ firstBy[1]["B"].properties # <<>>
    /\ firstBy[2]["B"].kind = "node"
    /\ firstBy[2]["B"].properties = <<>>

\* C3 (as claimed): declaring an edge again with a target that is already in
\* its list leaves the list unchanged, so the list holds each declared
\* target once.
C3_RedeclareSameTargetIdempotent ==
    \A n \in TypeNames :
        types[n].kind = "edge" => types[n].targets = Dedup(DeclTargets(n))

\* C4: the source_type() of an edge class is the source of its first
\* declaration, whatever source later declarations name.
C4_SourceFixedByFirstDeclaration ==
    \A n \in TypeNames :
        types[n].kind = "edge" => types[n].source = FirstDecl(n).source

\* C4 witness: an edge class was declared again with another source type.
C4_Witness ==
    \E n \in TypeNames :
        /\ types[n].kind = "edge"
        /\ firstBy[1][n].kind = "edge"
        /\ firstBy[2][n].kind = "edge"
        /\ firstBy[2][n].source # firstBy[1][n].source

\* C5 (as claimed): the class a second configuration gets for a name depends
\* only on what that configuration declared: its kind, fields, source type
\* and target list are those of the current parser's declarations.
C5_RegistryScopedToOneConfiguration ==
    \A n \in TypeNames :
        (parser > 1 /\ firstBy[parser][n].kind # "none") =>
            LET d == firstBy[parser][n] IN
            /\ types[n].kind = d.kind
            /\ types[n].properties = d.properties
            /\ d.kind = "edge" =>
                  /\ types[n].source = d.source
                  /\ types[n].targets = targetsBy[parser][n]

\* ----------------------------------------------------- make_id: the claims
\* The identifier the affix policy prescribes for (T, v) with separator s.
AffixedId(affix, s, T, v) ==
    CASE affix = "prefix" -> Str(T) \o s \o v
      [] affix = "suffix" -> v \o s \o Str(T)
      [] affix = "none"   -> v

\* C6 (as claimed): for every type name, raw value and separator, make_id
\* returns the identifier the affix policy prescribes.
C6_MakeIdForEveryValue ==
    made.called =>
        /\ made.exc = ""
        /\ ~made.none
        /\ made.id = AffixedId(type_affix, type_affix_sep,
                               made.entry_type, made.entry_name)

\* C6 (amended): whenever the prescribed identifier is not the empty string
\* (every non-empty raw value), make_id returns it; when it is empty (the
\* empty value under the none policy) make_id returns no identifier: it
\* raises DeclarationError under the raise policy and returns None otherwise.
C6_MakeIdNonEmpty ==
    made.called =>
        LET want == AffixedId(type_affix, type_affix_sep,
                              made.entry_type, made.entry_name) IN
        IF want # <<>>
        THEN made.exc = "" /\ ~made.none /\ made.id = want
        ELSE /\ made.none
             /\ made.exc = (IF raise_errors THEN "DeclarationError" ELSE "")

\* C6 witness: the suffix policy built BRCA1:Gene.
C6_Witness ==
    /\ made.called
    /\ type_affix = "suffix"
    /\ made.entry_name = <<"BRCA1">>
    /\ made.id = <<"BRCA1", ":", "Gene">>

\* ------------------------------------------------- the engine: the claims
\* The results of the row at position k were appended to the output.
RowAppended(k) ==
    IF parallel_mapping = 0 THEN k < cursor ELSE pc \in {"log", "done"}

\* What process_row returns for the row at position k (index k - 1).
RowOutput(k) == process_row(k - 1, df[k])

\* The values the subject transformer yields for the row at position k.
SubjectValues(k) == call(subject_transformer, df[k], k - 1).vals

\* The identifier of a subject named by the first of these values.
FirstSubjectId(k) ==
    element_id(adapter_make_id(subject_transformer.target, SubjectValues(k)[1]))

\* C7: under either failure policy, a row whose subject transformer yields
\* several values contributes no subject node built from the first of them,
\* and no edge whose source is that node.
C7_NoSubjectFromFirstOfSeveral ==
    \A k \in DOMAIN df :
        (RowAppended(k) /\ Len(SubjectValues(k)) > 1) =>
            /\ \A n \in Range(RowOutput(k).nodes) :
                  ~(n.label = subject_transformer.target /\ n.id = FirstSubjectId(k))
            /\ \A e \in Range(RowOutput(k).edges) : e.id_source # FirstSubjectId(k)

\* The j-th transformer redirects its edges to a subject type that no
\* transformer of the list targets.
Unmatched(j) ==
    /\ transformers[j].from_subject # ""
    /\ \A m \in DOMAIN transformers :
          transformers[m].target # transformers[j].from_subject

\* The number of configuration errors recorded for row k and transformer j.
ConfigErrors(k, j) ==
    Cardinality({e \in DOMAIN RowOutput(k).errors :
                    RowOutput(k).errors[e] =
                        [exception |-> "ConfigError", row |-> k - 1,
                         transformer |-> j]})

\* C8: a transformer whose from_subject names a type no transformer targets
\* gives, for a row it yields target values for, exactly one configuration
\* error and no edge, whatever the number of these values.
C8_OneConfigErrorPerUnmatchedSubject ==
    \A k \in DOMAIN df : \A j \in DOMAIN transformers :
        (/\ RowAppended(k)
         /\ Unmatched(j)
         /\ call(transformers[j], df[k], k - 1).vals # <<>>) =>
            /\ ConfigErrors(k, j) = 1
            /\ \A e \in Range(RowOutput(k).edges) : e.label # transformers[j].edge

RECURSIVE RowsInOrder(_, _, _)
\* acc followed by the nodes and edges of the rows k..n, row after row.
RowsInOrder(k, n, acc) ==
    IF k > n THEN acc
    ELSE RowsInOrder(k + 1, n, [nodes |-> acc.nodes \o RowOutput(k).nodes,
                                edges |-> acc.edges \o RowOutput(k).edges])

\* The nodes and edges of the rows 1..k, row after row.
InRowOrder(k) == RowsInOrder(1, k, [nodes |-> <<>>, edges |-> <<>>])

\* The output lists are those of r, or hold the same elements.
OutputIs(r) == nodes = r.nodes /\ edges = r.edges
OutputHolds(r) == Range(nodes) = Range(r.nodes) /\ Range(edges) = Range(r.edges)

\* C9: the sequential loop has appended the nodes and edges of the rows it
\* processed in row order; a parallel run that returns has produced the same
\* set of nodes and of edges as the sequential loop over all the rows,
\* whatever the order in which the row tasks started and ended.
C9_RowOrderAndSameSet ==
    /\ parallel_mapping = 0 => OutputIs(InRowOrder(cursor - 1))
    /\ (parallel_mapping > 0 /\ pc \in {"log", "done"}) =>
          OutputHolds(InRowOrder(Len(df)))

\* A parallel run over MaxRows rows with different outputs has returned.
C9_Witness ==
    /\ parallel_mapping > 0
    /\ pc = "done"
    /\ Len(df) = MaxRows
    /\ Range(RowOutput(1).nodes) # Range(RowOutput(Len(df)).nodes)
    /\ RowOutput(1).edges # <<>>
    /\ OutputIs(InRowOrder(Len(df)))

\* The mapping of the example: subject Gene from column gene_id, one map
\* transformer on column disease_id to Disease via ASSOCIATED_WITH, suffix
\* policy with separator ":", over the single row {BRCA1, D001}.
GeneDiseaseExample ==
    /\ subject_transformer = Transformer("map", <<"gene_id">>, "Gene", "", "", <<>>)
    /\ transformers = <<Transformer("map", <<"disease_id">>, "Disease",
                                    "ASSOCIATED_WITH", "", <<>>)>>
    /\ type_affix = "suffix"
    /\ type_affix_sep = <<":">>
    /\ df = <<[gene_id |-> <<"BRCA1">>, disease_id |-> <<"D001">>]>>

\* The tuples the example is said to yield.
GeneDiseaseOutput ==
    /\ nodes = <<[id |-> <<"BRCA1", ":", "Gene">>, label |-> "Gene",
                  properties |-> {}],
                 [id |-> <<"D001", ":", "Disease">>, label |-> "Disease",
                  properties |-> {}]>>
    /\ edges = <<[id |-> <<>>, id_source |-> <<"BRCA1", ":", "Gene">>,
                  id_target |-> <<"D001", ":", "Disease">>,
                  label |-> "ASSOCIATED_WITH", properties |-> {}]>>
    /\ errors = <<>>
    /\ raised = ""

\* C10: once the rows of the Gene/Disease example are processed, the output
\* is exactly the two node tuples and the one edge tuple, with no error.
C10_GeneDiseaseExample ==
    (GeneDiseaseExample /\ pc \in {"log", "done", "aborted"}) => GeneDiseaseOutput

\* The run of the example has returned with its output.
C10_Witness == GeneDiseaseExample /\ pc = "done" /\ GeneDiseaseOutput

\* ------------------------------------ empty and nan cells: the claims
\* The number of errors of one kind recorded for row k and transformer j.
RowErrors(k, j, exception) ==
    Cardinality({e \in DOMAIN RowOutput(k).errors :
                    RowOutput(k).errors[e] =
                        [exception |-> exception, row |-> k - 1,
                         transformer |-> j]})

\* The j-th transformer is a map on the one column disease_id, and that cell
\* of row k is empty or nan.
MapOnEmptyCell(k, j) ==
    /\ transformers[j].kind = "map"
    /\ transformers[j].columns = <<"disease_id">>
    /\ df[k].disease_id \in {EmptyCell, NanCell}

\* C11: under the collect policy an empty or nan cell given to a map
\* transformer never ends the run; the row records exactly one
\* transformer-data error for that transformer and gets no node of the
\* transformer's target type and no edge of its edge type.
C11_EmptyCellOneDataError ==
    raise_errors = FALSE =>
        /\ pc # "aborted"
        /\ \A k \in DOMAIN df : \A j \in DOMAIN transformers :
              (RowAppended(k) /\ MapOnEmptyCell(k, j)) =>
                  /\ RowErrors(k, j, "TransformerDataError") = 1
                  /\ \A n \in Range(RowOutput(k).nodes) :
                        n.label # transformers[j].target
                  /\ \A e \in Range(RowOutput(k).edges) :
                        e.label # transformers[j].edge

\* ------------------------------------------ transformer calls: the claims
RECURSIVE TranslatedCells(_, _, _)
\* For the columns k.. of the transformer t, the cell of the row looked up in
\* the table of t, or the cell itself when it is not a key of the table.
TranslatedCells(t, row, k) ==
    IF k > Len(t.columns) THEN <<>>
    ELSE <<IF \E p \in t.translations : p[1] = row[t.columns[k]]
           THEN translated(t.translations, row[t.columns[k]])
           ELSE row[t.columns[k]]>> \o TranslatedCells(t, row, k + 1)

\* Every declared column of the row the transformer is called on holds a
\* value.
CellsGiven ==
    \A k \in DOMAIN called.transformer.columns :
        called.row[called.transformer.columns[k]] # <<>>

\* C12: a translate transformer called on a row whose declared columns hold
\* values ends without exception and yields, column after column, the
\* table's entry for the cell or the cell itself when the table has none,
\* whether the table was given inline or loaded from a file.
C12_TranslateOrPassThrough ==
    (called.done /\ called.transformer.kind = "translate" /\ CellsGiven) =>
        /\ called.exc = ""
        /\ called.vals = TranslatedCells(called.transformer, called.row, 1)

RECURSIVE Concatenated(_, _, _)
\* The string values of the columns k.. of t in the row, joined in
\* declaration order.
Concatenated(t, row, k) ==
    IF k > Len(t.columns) THEN <<>>
    ELSE row[t.columns[k]] \o Concatenated(t, row, k + 1)

\* C13: a cat transformer whose validator rejects nothing, called on a row
\* whose declared columns hold values, yields exactly one value, the
\* concatenation of all its columns in declaration order.
C13_CatYieldsOneValue ==
    (/\ called.done
     /\ called.transformer.kind = "cat"
     /\ called.transformer.rejects = {}
     /\ CellsGiven) =>
        /\ called.exc = ""
        /\ called.vals = <<Concatenated(called.transformer, called.row, 1)>>

RECURSIVE AcceptedCells(_, _, _)
\* The cells of the columns k.. of t in the row that are not empty and that
\* the validator of t does not reject, in declaration order.
AcceptedCells(t, row, k) ==
    IF k > Len(t.columns) THEN <<>>
    ELSE (IF row[t.columns[k]] # <<>> /\ row[t.columns[k]] \notin t.rejects
          THEN <<row[t.columns[k]]>> ELSE <<>>)
         \o AcceptedCells(t, row, k + 1)

\* The validator of the transformer called rejects one of the cells.
CellRejected ==
    \E k \in DOMAIN called.transformer.columns :
        called.row[called.transformer.columns[k]] \in called.transformer.rejects

\* C14: when the output validator rejects a value of a map transformer (one
\* that was not told to raise its errors), no exception leaves the call: the
\* value is left out and the other values are yielded.
C14_RejectedValueSuppressed ==
    (/\ called.done
     /\ called.transformer.kind = "map"
     /\ called.transformer.flag # "raise"
     /\ CellRejected) =>
        /\ called.exc = ""
        /\ called.vals = AcceptedCells(called.transformer, called.row, 1)

\* C15: no value a transformer yields contains a single quote.
C15_YieldedValuesSanitized ==
    called.done =>
        \A k \in DOMAIN called.vals : SingleQuote \notin Range(called.vals[k])

\* ------------------------------------------- failure policy: the claims
\* C16: under the collect policy no exception leaves run(), whichever
\* component detected the error; under the raise policy a run that returns
\* has met no error.
C16_OnePolicyForAllComponents ==
    /\ raise_errors = FALSE => (pc # "aborted" /\ raised = "")
    /\ (raise_errors = TRUE /\ pc \in {"log", "done"}) => errors = <<>>

\* Processing the row at position k meets an error (recorded or raised).
RowHasError(k) == RowOutput(k).exc # "" \/ RowOutput(k).errors # <<>>

RECURSIVE ErrorsInRowOrder(_)
\* The errors a collect-mode sequential loop records for the rows 1..k.
ErrorsInRowOrder(k) ==
    IF k = 0 THEN <<>> ELSE ErrorsInRowOrder(k - 1) \o RowOutput(k).errors

\* C17: once a parallel run has ended, the errors of its rows are in the
\* error list under either policy: the list is not empty when a row met an
\* error, and under the collect policy it is the list a sequential run
\* records.
C17_ParallelErrorsCollected ==
    (parallel_mapping > 0 /\ pc \in {"log", "done", "aborted"}) =>
        /\ (\E k \in DOMAIN df : RowHasError(k)) => errors # <<>>
        /\ raise_errors = FALSE => errors = ErrorsInRowOrder(Len(df))

\* C18: in parallel mode no more than parallel_mapping row tasks are being
\* processed at the same time.
C18_PoolBoundedByParallelMapping ==
    parallel_mapping > 0 =>
        Cardinality({k \in DOMAIN df : worker[k] = "running"}) <= parallel_mapping

\* ------------------------------------------------- parsing: the claims
\* The k-th entry of the mapping declares both properties and a target.
BothDeclared(k) ==
    /\ mapping.transformers[k].to_properties # <<>>
    /\ mapping.transformers[k].to_target # ""

\* The mapping cut before its k-th entry.
Before(k) == [mapping EXCEPT !.transformers = SubSeq(@, 1, k - 1)]

\* C19: when the parser reaches an entry that declares both a property
\* mapping and a target (nothing before it made the parsing fail), the call
\* raises a cardinality error and returns no transformer.
C19_PropertiesAndTargetRejected ==
    parser = 1 =>
        \A k \in DOMAIN mapping.transformers :
            (/\ BothDeclared(k)
             /\ \A m \in 1..(k - 1) : ~BothDeclared(m)
             /\ yaml_parse(Before(k), FreshModule).exc = "") =>
                /\ exc = "CardinalityError"
                /\ transformers = <<>>

\* A structural entry followed by an entry with both was parsed.
C19_Witness ==
    /\ parser = 1
    /\ Len(mapping.transformers) = 2
    /\ mapping.transformers[1].to_properties = <<>>
    /\ mapping.transformers[1].via_edge # ""
    /\ BothDeclared(2)
    /\ exc = "CardinalityError"
    /\ types["Disease"].kind = "node"
    /\ transformers = <<>>

\* The metadata block holds the directive to store the source column names
\* under a key that the block holds as well.
KeyCollision ==
    \E a \in DOMAIN mapping.metadata : \E b \in DOMAIN mapping.metadata :
        /\ mapping.metadata[a][1] = AddSourceColumnNamesAs
        /\ mapping.metadata[b][1] = key_name_of(mapping.metadata[a][2])

\* C20: a metadata block whose directive names a key the block already holds
\* makes the parsing fail with a key error; no metadata is returned.
C20_MetadataKeyCollisionRejected ==
    (parser = 1 /\ KeyCollision) => (exc = "KeyError" /\ metadata = {})

\* Such a block was parsed, the colliding key coming first in the block.
C20_Witness ==
    /\ parser = 1
    /\ KeyCollision
    /\ mapping.metadata[1][1] # AddSourceColumnNamesAs
    /\ exc = "KeyError"

\* The source-column directive of the metadata block names a key that no
\* item of the block declares.
DirectiveKeyFree ==
    /\ \E a \in DOMAIN mapping.metadata :
          mapping.metadata[a][1] = AddSourceColumnNamesAs
    /\ ~KeyCollision

\* The types the mapping declares with source columns: the subject type and
\* the target type of every structural entry.
ColumnTypes ==
    ({mapping.row.to_subject}
     \cup {mapping.transformers[k].to_target : k \in DOMAIN mapping.transformers})
    \ {""}

\* The key the directive of the metadata block names.
DirectiveKey ==
    key_name_of(mapping.metadata[CHOOSE a \in DOMAIN mapping.metadata :
                    mapping.metadata[a][1] = AddSourceColumnNamesAs][2])

\* C30: a mapping whose metadata block does not declare the key its directive
\* names, and whose entries are otherwise well formed, is parsed without a
\* key error, however many entries share a type name; afterwards every type
\* declared with source columns holds a value under that key.
C30_NoCollisionWithoutDeclaredKey ==
    (/\ parser = 1
     /\ DirectiveKeyFree
     /\ yaml_parse(with_metadata_list(mapping, <<>>), FreshModule).exc = "") =>
        /\ exc # "KeyError"
        /\ \A T \in ColumnTypes :
              \E m \in metadata : m.type = T /\ m.key = DirectiveKey

\* ------------------------------------------------- register: the claims
\* C21: registering a class that does not inherit from base.Transformer
\* fails with the interface (configuration) error of the library and leaves
\* that class unavailable as a transformer kind; registering a class that
\* inherits from it returns and makes the class available under its name.
C21_RegisterChecksContract ==
    registered.kind # "none" =>
        IF registered.kind = "Transformer"
        THEN /\ exc = ""
             /\ transformer_module[registered.name] = registered
             /\ make_transformer_class(transformer_module, registered.name) = ""
        ELSE /\ exc = "InterfaceInheritanceError"
             /\ transformer_module[registered.name] # registered

\* ------------------------------------------ nodes and edges: the claims
RECURSIVE Flatten(_)
\* The concatenation of a sequence of sequences.
Flatten(ss) == IF ss = <<>> THEN <<>> ELSE Head(ss) \o Flatten(Tail(ss))

\* A node tuple without its properties, an edge tuple without them.
NodeEnds(n) == <<n.label, n.id>>
EdgeEnds(e) == <<e.label, e.id_source, e.id_target>>
EndsOf(es) == [x \in DOMAIN es |-> EdgeEnds(es[x])]

\* The values the j-th transformer yields for the row at position k.
TargetValues(k, j) == call(transformers[j], df[k], k - 1).vals

\* The j-th transformer redirects its edges (it has a from_subject).
Redirecting(j) == transformers[j].from_subject # ""

\* The identifier of the node of type T named by the value v.
NodeId(T, v) == AffixedId(type_affix, type_affix_sep, T, v)

\* An edge of the row was built by a redirecting transformer, or by one that
\* does not redirect (a transformer's edges carry its edge type).
IsRedirected(e) ==
    \E j \in DOMAIN transformers : Redirecting(j) /\ transformers[j].edge = e.label
IsDirect(e) ==
    \E j \in DOMAIN transformers : ~Redirecting(j) /\ transformers[j].edge = e.label

\* For the target value v of the redirecting transformer j: one edge from
\* every value of every transformer that targets its from_subject type.
PairsFor(k, j, v) ==
    Flatten([m \in DOMAIN transformers |->
        IF transformers[m].target = transformers[j].from_subject
        THEN [z \in DOMAIN TargetValues(k, m) |->
                 <<transformers[j].edge,
                   NodeId(transformers[j].from_subject, TargetValues(k, m)[z]),
                   NodeId(transformers[j].target, v)>>]
        ELSE <<>>])

\* The edges the claim prescribes for the redirecting transformers of the
\* row at position k, in declaration order.
RedirectedEdges(k) ==
    Flatten([j \in DOMAIN transformers |->
        IF Redirecting(j)
        THEN Flatten([x \in DOMAIN TargetValues(k, j) |->
                         PairsFor(k, j, TargetValues(k, j)[x])])
        ELSE <<>>])

\* C22: for every processed row, the edges of the redirecting transformers
\* are exactly one edge per pair (s, t), t a target value of the transformer
\* and s a value of a transformer that targets its from_subject type, from
\* the node of s to the node of t; none of them starts at the row's subject.
C22_RedirectedEdgesPerPair ==
    \A k \in DOMAIN df :
        RowAppended(k) =>
            EndsOf(SelectSeq(RowOutput(k).edges, IsRedirected)) = RedirectedEdges(k)

\* The (label, id) of the nodes that follow the subject node in the output
\* `out` of a row, and the ends of its edges without redirection.
AfterSubject(out) ==
    [x \in DOMAIN Tail(out.nodes) |-> NodeEnds(Tail(out.nodes)[x])]
WithoutRedirection(out) == EndsOf(SelectSeq(out.edges, IsDirect))

\* The target nodes the claim prescribes for the row at position k: one per
\* value, transformer after transformer.
TargetNodes(k) ==
    Flatten([j \in DOMAIN transformers |->
        [x \in DOMAIN TargetValues(k, j) |->
            <<transformers[j].target,
              NodeId(transformers[j].target, TargetValues(k, j)[x])>>]])

\* The edges it prescribes for the transformers that do not redirect: one
\* per value, from the row's subject node to the target node.
DirectEdges(k) ==
    Flatten([j \in DOMAIN transformers |->
        IF Redirecting(j) THEN <<>>
        ELSE [x \in DOMAIN TargetValues(k, j) |->
                 <<transformers[j].edge, FirstSubjectId(k),
                   NodeId(transformers[j].target, TargetValues(k, j)[x])>>]])

\* C23: for every processed row, after the subject node come one target node
\* per target value, in declaration order of the transformers, and the
\* transformers without redirection give exactly one edge per value, from
\* the row's subject node to that target node, in the same order.
C23_OneNodeAndEdgePerTarget ==
    \A k \in DOMAIN df :
        RowAppended(k) =>
            /\ AfterSubject(RowOutput(k)) = TargetNodes(k)
            /\ WithoutRedirection(RowOutput(k)) = DirectEdges(k)

\* A run has returned with a row for which two transformers without
\* redirection each yielded a value.
C23_Witness ==
    /\ pc = "done"
    /\ \E k \in DOMAIN df :
          /\ Len(DirectEdges(k)) = 2
          /\ Len(transformers) = 2
          /\ Range(DirectEdges(k)) \subseteq Range(EndsOf(edges))

\* process_row was called on the row at position k and has ended.
Attempted(k) ==
    IF parallel_mapping = 0
    THEN k < cursor \/ (k = cursor /\ pc = "aborted")
    ELSE worker[k] = "done"

\* C27: once a run has returned, both ends of every edge of the output are
\* identifiers of nodes of the output.
C27_NoDanglingEdge ==
    pc \in {"log", "done"} =>
        \A e \in Range(edges) :
            /\ \E n \in Range(nodes) : n.id = e.id_source
            /\ \E n \in Range(nodes) : n.id = e.id_target

\* ------------------------------------------------- properties: the claims
\* The property entries of the mapping, and the types one is attached to.
PropertyEntries ==
    {k \in DOMAIN mapping.transformers : mapping.transformers[k].to_properties # <<>>}
ObjectTypes(k) ==
    IF mapping.transformers[k].for_objects = <<>>
    THEN {mapping.row.to_subject}
    ELSE Range(mapping.transformers[k].for_objects)

\* Processing the row at position k builds a node of type T: the subject
\* yields a value and T is the subject type or the target of a transformer
\* that yields a value.
BuildsNode(k, T) ==
    /\ SubjectValues(k) # <<>>
    /\ \/ T = subject_transformer.target
       \/ \E j \in DOMAIN transformers :
             transformers[j].target = T /\ TargetValues(k, j) # <<>>

\* The value a map property entry extracts from the row at position k.
Extracted(k, e) == backticked(df[k][mapping.transformers[e].columns[1]])

\* C24: when the row of a mapping with a property entry is processed, every
\* node built for a type the entry is attached to (the subject type when it
\* names no for_objects) is built with every property name of the entry set
\* to the value extracted from the row.
C24_PropertiesOnEveryObjectType ==
    \A e \in PropertyEntries : \A T \in ObjectTypes(e) : \A k \in DOMAIN df :
        (Attempted(k) /\ BuildsNode(k, T)) =>
            /\ RowOutput(k).exc = ""
            /\ \A n \in Range(RowOutput(k).nodes) :
                  n.label = T =>
                      \A p \in Range(mapping.transformers[e].to_properties) :
                          <<p, Extracted(k, e)>> \in n.properties

\* The properties the claim prescribes for an edge of type E of the row at
\* position k: those declared for E, then the metadata of E.
EdgeProperties(k, E) ==
    dict_update(
        {<<p, Extracted(k, e)>> :
            e \in {x \in PropertyEntries : E \in ObjectTypes(x)},
            p \in UNION {Range(mapping.transformers[x].to_properties) :
                            x \in {y \in PropertyEntries : E \in ObjectTypes(y)}}},
        {m \in metadata : m.type = E})

\* C28: every edge built through a from_subject redirection carries the
\* properties declared for its own edge type and the metadata of its own
\* edge type, and nothing else.
C28_RedirectedEdgeProperties ==
    \A k \in DOMAIN df :
        RowAppended(k) =>
            \A e \in Range(RowOutput(k).edges) :
                IsRedirected(e) => e.properties = EdgeProperties(k, e.label)

\* ------------------------------------------- the subject step: the claims
\* The subject transformer ends without a value for the row at position k.
SubjectSilent(k) ==
    /\ call(subject_transformer, df[k], k - 1).exc = ""
    /\ call(subject_transformer, df[k], k - 1).vals = <<>>

\* C29: under the collect policy, processing a row whose subject transformer
\* yields no value ends without exception, records an error for the row and
\* builds no subject node.
C29_NoSubjectValueIsRecorded ==
    raise_errors = FALSE =>
        \A k \in DOMAIN df :
            (Attempted(k) /\ SubjectSilent(k)) =>
                /\ RowOutput(k).exc = ""
                /\ RowOutput(k).errors # <<>>
                /\ \A n \in Range(RowOutput(k).nodes) :
                      n.label # subject_transformer.target

\* ------------------------------------------- the final summary: the claims
\* C25: when run() logs its summary, the node count is the number of node
\* tuples the run appended to the output, subject nodes included, and the
\* row count is the number of rows of the data frame.
C25_SummaryCountsMatchOutput ==
    pc \in {"log", "done"} =>
        /\ counts.nb_nodes = Len(nodes)
        /\ counts.nb_rows = Len(df)

\* ------------------------------------------------- row purity: the claims
\* C26: a transformer call leaves the row as it was, and the same call made
\* again on the row it left yields the same values.
C26_CallLeavesRowUnchanged ==
    (called.done /\ called.exc = "") =>
        /\ called.row_after = called.row
        /\ call(called.transformer, called.row_after, 0).vals = called.vals

====
